---- MODULE Spec2Model ----
(***************************************************************************)
(* Model of the Sparks text-to-speech player: the TTS controller object    *)
(* (src/unnamed/part_000), the duration estimator of the Parser            *)
(* (src/js/app.js) and the parts of the browser the controller drives: the *)
(* speech-synthesis queue, the event loop's timers and the wake lock.      *)
(*                                                                         *)
(* Encodings                                                               *)
(*  - rates are in quarters: 0.75 = 3, 1.0 = 4, ... 2.0 = 8;               *)
(*  - currentPosition, totalDuration, savedPosition are in half seconds    *)
(*    (a seek to 50 percent of an odd total is a half second);             *)
(*  - chunk indices are the program's (0-based); chunks[i] of the program  *)
(*    is chunks[i + 1] here;                                               *)
(*  - a chunk's text is kept as its number of words, the only thing the    *)
(*    controller and the estimator read from it;                           *)
(*  - arithmetic is exact where the program uses IEEE doubles.             *)
(***************************************************************************)
EXTENDS Integers, Sequences, FiniteSets, Bags, TLC

\* ------------------------------------------------------------------ bounds

\* Most utterances, undelivered engine events and pending timers at once.
MaxPending == 2
\* Largest persisted position (whole seconds) handed to restorePosition.
MaxRestore == 3
\* Most calls of the controller's public operations in one run.
MaxOps == 4
\* Most characters of a file handed to the chunker.
MaxText == 4
\* Most chunks of a sequence handed to the estimator on its own.
MaxChunks == 2
\* Most characters of a plain text file of letters, spaces and line feeds.
MaxPlainText == 5

\* --------------------------------------------------------------- constants

\* null, for a name.
Null == "null"
\* null, and a value that is not null, for a number.
None == << >>
Some(x) == << x >>

\* CONFIG.TTS_RATES, in quarters.
TTS_RATES == <<3, 4, 5, 6, 7, 8>>
\* CONFIG.TTS_DEFAULT_RATE, in quarters.
TTS_DEFAULT_RATE == 4
\* CONFIG.SKIP_DURATION, in seconds.
SKIP_DURATION == 15
\* Average words per minute of the synthesis engine at rate 1.0.
BaseWPM == 150

RateSet == {TTS_RATES[i] : i \in DOMAIN TTS_RATES}

\* The chunk sequences Parser.parseIntoChunks hands to the controller: an empty
\* document and a three-line one (3 s long up to rate 1.0, 2 s from rate 1.25).
Contents ==
    { << >>,
      << [words |-> 1, pauseAfter |-> 800], [words |-> 1, pauseAfter |-> 200],
         [words |-> 1, pauseAfter |-> 400] >> }

\* Rates given to setRate and rates found persisted at start: the slowest and the
\* fastest of the list (cycleRate reaches the others).
RateChoices == {TTS_RATES[1], TTS_RATES[Len(TTS_RATES)]}
\* Arguments given to skipForward / skipBackward, in seconds.
SkipChoices == {1, SKIP_DURATION}
\* Places of a click on the progress bar, in percent.
PercentChoices == {0, 50, 100}
\* Error codes of a SpeechSynthesisErrorEvent.
CancelCodes == {"interrupted", "canceled"}
OtherCodes == {"network"}

\* The engine's voices, in the engine's order.  pref is the index in
\* CONFIG.TTS_PREFERRED_VOICES of the first preferred name the voice's name
\* contains (0: none), excluded whether it contains a name of
\* CONFIG.TTS_EXCLUDED_VOICES.
EngineVoices ==
    << [name |-> "Albert", lang |-> "en-US", localService |-> TRUE, pref |-> 0, excluded |-> TRUE],
       [name |-> "Karen", lang |-> "en_us", localService |-> FALSE, pref |-> 0, excluded |-> FALSE],
       [name |-> "Samantha", lang |-> "en-US", localService |-> TRUE, pref |-> 1, excluded |-> FALSE],
       [name |-> "Thomas", lang |-> "fr-FR", localService |-> TRUE, pref |-> 0, excluded |-> FALSE] >>
\* Number of names in CONFIG.TTS_PREFERRED_VOICES.
PreferredCount == 2
\* Names given to setVoice: the engine's, and one no voice has.
VoiceNames == {EngineVoices[i].name : i \in DOMAIN EngineVoices} \cup {"Nobody"}

Min(a, b) == IF a <= b THEN a ELSE b
Max(a, b) == IF a >= b THEN a ELSE b
\* Whole seconds as a position.
Sec(n) == 2 * n

\* ------------------------------------------------------------------- state

VARIABLES
    isPlaying, isPaused,
    currentPosition, totalDuration,
    chunks, currentChunkIndex,
    rate, voice, availableVoices,
    progressInterval, saveInterval,
    pauseTimeout,       \* Some(index the pending timer behind this.pauseTimeout will speak), or None
    savedPosition, savedChunkIndex,
    wakeLock,
    callbacks,          \* whether init has installed the App's callbacks (onEnd, onProgress, ...)
    synthQueue,         \* speechSynthesis: utterances submitted and not ended, head speaking
    staleEvents,        \* bag: utterances removed by cancel() whose event is not delivered yet
    orphanTimers,       \* bag: pending timers whose handle this.pauseTimeout no longer holds
    wakeSupported, wakeRequests,
    storedRate, storedVoice,
    synthVoices,        \* what speechSynthesis.getVoices() returns
    voiceListeners,     \* once-listeners of 'voiceschanged' not run yet
    opsDone,            \* calls of public operations so far
    lastOp,             \* the last handler that ran, the save interval's aside
    endFired,           \* whether the last step called onEndCallback
    voicesNotified,     \* how many times the last step ran loadVoices (a voice refresh)
    rawContent,         \* the text of the file being read, a sequence of characters
    parsedExt,          \* Some(the extension of the file name the text was parsed under), or None
    parsed,             \* what Parser.parseIntoChunks returned for it
    estimated           \* Some(the rate and the result of the last call of
                        \* Parser.estimateChunksDuration on parsed), or None

vars == << isPlaying, isPaused, currentPosition, totalDuration, chunks,
           currentChunkIndex, rate, voice, availableVoices, progressInterval,
           saveInterval, pauseTimeout, savedPosition, savedChunkIndex, wakeLock,
           callbacks, synthQueue, staleEvents, orphanTimers, wakeSupported, wakeRequests,
           storedRate, storedVoice, synthVoices, voiceListeners, opsDone, lastOp, endFired,
           voicesNotified, rawContent, parsedExt, parsed, estimated >>

\* The variables of the controller, the browser and the run.
TTSVars == << isPlaying, isPaused, currentPosition, totalDuration, chunks,
              currentChunkIndex, rate, voice, availableVoices, progressInterval,
              saveInterval, pauseTimeout, savedPosition, savedChunkIndex, wakeLock,
              callbacks, synthQueue, staleEvents, orphanTimers, wakeSupported,
              wakeRequests, storedRate, storedVoice, synthVoices, voiceListeners,
              opsDone, lastOp, endFired, voicesNotified >>

\* The whole state as one record, so that a handler is a function from the state
\* before it to the state after it and handlers compose as the calls do.
Cur ==
    [ isPlaying |-> isPlaying, isPaused |-> isPaused,
      currentPosition |-> currentPosition, totalDuration |-> totalDuration,
      chunks |-> chunks, currentChunkIndex |-> currentChunkIndex,
      rate |-> rate, voice |-> voice, availableVoices |-> availableVoices,
      progressInterval |-> progressInterval, saveInterval |-> saveInterval,
      pauseTimeout |-> pauseTimeout,
      savedPosition |-> savedPosition, savedChunkIndex |-> savedChunkIndex,
      wakeLock |-> wakeLock, callbacks |-> callbacks,
      synthQueue |-> synthQueue, staleEvents |-> staleEvents,
      orphanTimers |-> orphanTimers,
      wakeSupported |-> wakeSupported, wakeRequests |-> wakeRequests,
      storedRate |-> storedRate, storedVoice |-> storedVoice,
      synthVoices |-> synthVoices, voiceListeners |-> voiceListeners,
      endFired |-> FALSE, voicesNotified |-> 0,
      \* what the handler has handed to saveProgressCallback, in order; the
      \* App's storage is not part of the state
      checkpoints |-> << >>,
      \* the events the handler has handed to onProgressCallback, in order
      progressEvents |-> << >>,
      \* the delays of the setTimeout calls of the handler, in order
      timeouts |-> << >> ]

Commit(s, op) ==
    /\ isPlaying' = s.isPlaying
    /\ isPaused' = s.isPaused
    /\ currentPosition' = s.currentPosition
    /\ totalDuration' = s.totalDuration
    /\ chunks' = s.chunks
    /\ currentChunkIndex' = s.currentChunkIndex
    /\ rate' = s.rate
    /\ voice' = s.voice
    /\ availableVoices' = s.availableVoices
    /\ progressInterval' = s.progressInterval
    /\ saveInterval' = s.saveInterval
    /\ pauseTimeout' = s.pauseTimeout
    /\ savedPosition' = s.savedPosition
    /\ savedChunkIndex' = s.savedChunkIndex
    /\ wakeLock' = s.wakeLock
    /\ callbacks' = s.callbacks
    /\ synthQueue' = s.synthQueue
    /\ staleEvents' = s.staleEvents
    /\ orphanTimers' = s.orphanTimers
    /\ wakeSupported' = s.wakeSupported
    /\ wakeRequests' = s.wakeRequests
    /\ storedRate' = s.storedRate
    /\ storedVoice' = s.storedVoice
    /\ synthVoices' = s.synthVoices
    /\ voiceListeners' = s.voiceListeners
    /\ endFired' = s.endFired
    /\ voicesNotified' = s.voicesNotified
    /\ lastOp' = op
    /\ UNCHANGED << rawContent, parsedExt, parsed, estimated >>

\* Utterances in the queue, events not delivered and timers not fired.
Pending(s) ==
    Len(s.synthQueue) + BagCardinality(s.staleEvents) + BagCardinality(s.orphanTimers)
        + (IF s.pauseTimeout = None THEN 0 ELSE 1)

\* ------------------------------------------------------- Parser (estimator)

RECURSIVE SumWords(_), SumPauses(_)
SumWords(cs) == IF cs = << >> THEN 0 ELSE Head(cs).words + SumWords(Tail(cs))
SumPauses(cs) == IF cs = << >> THEN 0 ELSE Head(cs).pauseAfter + SumPauses(Tail(cs))

\* Math.round of the non-negative quotient a / b.
RoundDiv(a, b) == (2 * a + b) \div (2 * b)

\* Mutant of estimateChunksDuration: no early return for an empty sequence.
estimateChunksDuration_noEmptyCase(cs, r) ==
    Max(1, RoundDiv(240000 * SumWords(cs) + BaseWPM * r * SumPauses(cs),
                    1000 * BaseWPM * r))

\* Mutant of estimateChunksDuration: the time of a word grows with the rate
\* (60000 / 150 * rate).
estimateChunksDuration_slowerWhenFaster(cs, r) ==
    IF Len(cs) = 0 THEN 0
    ELSE Max(1, RoundDiv(100 * r * SumWords(cs) + SumPauses(cs), 1000))

\* Parser.estimateChunksDuration, in whole seconds.  msPerWord is
\* 60000 / (BaseWPM * rate) = 240000 / (BaseWPM * r) for the rate r in
\* quarters, so totalMs = (240000 * words + BaseWPM * r * pauses) / (BaseWPM * r).
estimateChunksDuration(cs, r) ==
    IF Len(cs) = 0 THEN 0
    ELSE Max(1, RoundDiv(240000 * SumWords(cs) + BaseWPM * r * SumPauses(cs),
                         1000 * BaseWPM * r))

\* ------------------------------------------------------------- the browser

\* speechSynthesis.cancel(): every utterance leaves the queue; the one being
\* spoken is interrupted, the others are canceled before they began.  Their
\* events are delivered later, by the event loop.
RECURSIVE CanceledBag(_, _)
CanceledBag(q, first) ==
    IF q = << >> THEN EmptyBag
    ELSE SetToBag({[index |-> Head(q).index,
                    code |-> IF first THEN "interrupted" ELSE "canceled"]})
             (+) CanceledBag(Tail(q), FALSE)

SynthCancel(s) ==
    [s EXCEPT !.synthQueue = << >>,
              !.staleEvents = s.staleEvents (+) CanceledBag(s.synthQueue, TRUE)]

\* clearTimeout(this.pauseTimeout); this.pauseTimeout = null.
ClearPauseTimeout(s) == [s EXCEPT !.pauseTimeout = None]

\* this.pauseTimeout = setTimeout(() => this.speakChunk(index), ...): a timer
\* whose handle is overwritten stays pending.
SetPauseTimeout(s, index) ==
    [s EXCEPT !.pauseTimeout = Some(index),
              !.orphanTimers = IF s.pauseTimeout = None THEN s.orphanTimers
                               ELSE s.orphanTimers (+) SetToBag({s.pauseTimeout[1]})]

\* A delay of ms milliseconds divided by the rate r (in quarters).
Delay(ms, r) == [ms |-> ms, perRate |-> r]

\* The second argument of a setTimeout call of the handler.
WithDelay(s, delay) == [s EXCEPT !.timeouts = Append(@, delay)]

\* chunk.pauseAfter of the chunk the utterance speakChunk(index) made was built
\* from (the handlers close over it).
PauseOf(s, index) == IF index < Len(s.chunks) THEN s.chunks[index + 1].pauseAfter ELSE 0

\* ------------------------------------------------------------ TTS handlers

\* TTS.saveProgress
saveProgress(s) ==
    IF s.callbacks
    THEN [s EXCEPT !.checkpoints = Append(@, << s.currentPosition, s.totalDuration >>)]
    ELSE s

\* TTS.getProgressPercent, of positions that are not negative.
getProgressPercent(s) ==
    IF s.totalDuration = 0 THEN 0 ELSE RoundDiv(100 * s.currentPosition, s.totalDuration)

\* TTS.notifyProgress
notifyProgress(s) ==
    IF s.callbacks
    THEN [s EXCEPT !.progressEvents =
              Append(@, [currentPosition |-> s.currentPosition,
                         totalDuration |-> s.totalDuration,
                         percent |-> getProgressPercent(s),
                         rate |-> s.rate,
                         isPlaying |-> s.isPlaying, isPaused |-> s.isPaused,
                         currentChunk |-> s.currentChunkIndex,
                         totalChunks |-> Len(s.chunks)])]
    ELSE s

requestWakeLock(s) ==
    IF s.wakeSupported THEN [s EXCEPT !.wakeRequests = s.wakeRequests + 1] ELSE s

releaseWakeLock(s) == [s EXCEPT !.wakeLock = FALSE]

stopProgressTracking(s) == [s EXCEPT !.progressInterval = FALSE, !.saveInterval = FALSE]

startProgressTracking(s) == [s EXCEPT !.progressInterval = TRUE, !.saveInterval = TRUE]

handleEnd(s) ==
    LET t == notifyProgress(releaseWakeLock(stopProgressTracking(
                 [s EXCEPT !.isPlaying = FALSE, !.isPaused = FALSE,
                           !.currentPosition = s.totalDuration])))
    IN  [t EXCEPT !.endFired = s.callbacks]

speakChunk(s, index) ==
    IF index >= Len(s.chunks) THEN handleEnd(s)
    ELSE IF ~s.isPlaying \/ s.isPaused THEN s
    ELSE [s EXCEPT !.currentChunkIndex = index,
                   !.synthQueue = Append(s.synthQueue,
                        [index |-> index, rate |-> s.rate, voice |-> s.voice])]

\* Mutant of onend: the chunk after the next is scheduled.
onend_skipsOne(s, index) ==
    IF s.isPlaying /\ ~s.isPaused
    THEN WithDelay(SetPauseTimeout(s, index + 2), Delay(PauseOf(s, index), s.rate))
    ELSE s

\* Mutant of onend: the pause is not divided by the rate.
onend_unscaledPause(s, index) ==
    IF s.isPlaying /\ ~s.isPaused
    THEN WithDelay(SetPauseTimeout(s, index + 1), Delay(PauseOf(s, index), TTS_DEFAULT_RATE))
    ELSE s

\* utterance.onend of the utterance speakChunk(index) made.
onend(s, index) ==
    IF s.isPlaying /\ ~s.isPaused
    THEN WithDelay(SetPauseTimeout(s, index + 1), Delay(PauseOf(s, index), s.rate))
    ELSE s

\* Mutant of onerror: every error, a cancellation too, moves on to the next chunk.
onerror_anyCode(s, index, code) ==
    IF s.isPlaying /\ ~s.isPaused
    THEN WithDelay(SetPauseTimeout(s, index + 1), Delay(100, TTS_DEFAULT_RATE))
    ELSE s

\* Mutant of onerror: an error is logged and playback is left where it is.
onerror_stalls(s, index, code) == s

\* Mutant of onerror: the chunk that failed is tried again.
onerror_retries(s, index, code) ==
    IF code \notin CancelCodes /\ s.isPlaying /\ ~s.isPaused
    THEN WithDelay(SetPauseTimeout(s, index), Delay(100, TTS_DEFAULT_RATE)) ELSE s

\* utterance.onerror of the utterance speakChunk(index) made.
onerror(s, index, code) ==
    IF code \notin CancelCodes /\ s.isPlaying /\ ~s.isPaused
    THEN WithDelay(SetPauseTimeout(s, index + 1), Delay(100, TTS_DEFAULT_RATE)) ELSE s

stopInternal(s) ==
    SynthCancel(stopProgressTracking(
        [ClearPauseTimeout(s) EXCEPT !.isPlaying = FALSE, !.isPaused = FALSE]))

\* Mutant of stop: it also rewinds to the start.
stop_rewinds(s) ==
    [releaseWakeLock(stopInternal(s)) EXCEPT !.currentPosition = 0, !.currentChunkIndex = 0]

stop(s) == releaseWakeLock(stopInternal(s))

\* Mutant of resume: no check that the controller is paused.
resume_unguarded(s) ==
    LET r == [s EXCEPT !.isPaused = FALSE, !.isPlaying = TRUE,
                       !.currentChunkIndex = s.savedChunkIndex,
                       !.currentPosition = s.savedPosition]
    IN  startProgressTracking(speakChunk(requestWakeLock(r), r.currentChunkIndex))

\* Mutant of resume: the snapshot of pause() is not restored, so a seek made
\* while paused decides where playback restarts.
resume_keepsSeek(s) ==
    IF ~s.isPaused THEN s
    ELSE LET r == [s EXCEPT !.isPaused = FALSE, !.isPlaying = TRUE]
         IN  startProgressTracking(speakChunk(requestWakeLock(r), r.currentChunkIndex))

resume(s) ==
    IF ~s.isPaused THEN s
    ELSE LET r == [s EXCEPT !.isPaused = FALSE, !.isPlaying = TRUE,
                            !.currentChunkIndex = s.savedChunkIndex,
                            !.currentPosition = s.savedPosition]
         IN  startProgressTracking(speakChunk(requestWakeLock(r), r.currentChunkIndex))

\* Mutant of play: a paused controller is started like a stopped one, at the
\* current index and position and not at the snapshot of pause().
play_fromCurrent(s) ==
    IF s.isPlaying THEN s
    ELSE startProgressTracking(
            speakChunk(requestWakeLock([s EXCEPT !.isPlaying = TRUE, !.isPaused = FALSE]),
                       s.currentChunkIndex))

play(s) ==
    IF s.isPaused THEN resume(s)
    ELSE IF s.isPlaying THEN s
    ELSE startProgressTracking(
            speakChunk(requestWakeLock([s EXCEPT !.isPlaying = TRUE, !.isPaused = FALSE]),
                       s.currentChunkIndex))

\* Mutant of pause: isPlaying is left true.
pause_staysPlaying(s) ==
    IF ~s.isPlaying THEN s
    ELSE SynthCancel(releaseWakeLock(stopProgressTracking(
            [ClearPauseTimeout(s) EXCEPT !.savedPosition = s.currentPosition,
                                         !.savedChunkIndex = s.currentChunkIndex,
                                         !.isPaused = TRUE])))

\* Mutant of pause: the position is not saved.
pause_noSnapshot(s) ==
    IF ~s.isPlaying THEN s
    ELSE SynthCancel(releaseWakeLock(stopProgressTracking(
            [ClearPauseTimeout(s) EXCEPT !.savedChunkIndex = s.currentChunkIndex,
                                         !.isPaused = TRUE,
                                         !.isPlaying = FALSE])))

pause(s) ==
    IF ~s.isPlaying THEN s
    ELSE SynthCancel(releaseWakeLock(stopProgressTracking(
            [ClearPauseTimeout(s) EXCEPT !.savedPosition = s.currentPosition,
                                         !.savedChunkIndex = s.currentChunkIndex,
                                         !.isPaused = TRUE,
                                         !.isPlaying = FALSE])))

\* Mutant of seekToPosition: the index is not clamped to the last chunk.
seekToPosition_noClamp(s, seconds) ==
    notifyProgress(
        [s EXCEPT !.currentPosition = seconds,
                  !.currentChunkIndex =
                      IF Len(s.chunks) > 0 /\ s.totalDuration > 0
                      THEN Max(0, (seconds * Len(s.chunks)) \div s.totalDuration)
                      ELSE 0])

\* seconds is a position (half seconds).
seekToPosition(s, seconds) ==
    notifyProgress(
        [s EXCEPT !.currentPosition = seconds,
                  !.currentChunkIndex =
                      IF Len(s.chunks) > 0 /\ s.totalDuration > 0
                      THEN Max(0, Min((seconds * Len(s.chunks)) \div s.totalDuration,
                                      Len(s.chunks) - 1))
                      ELSE 0])

seekToPercent(s, percent) == seekToPosition(s, (percent * s.totalDuration) \div 100)

\* The restart skipForward, skipBackward, setRate and setVoice end with.
Restart(s) ==
    startProgressTracking(speakChunk([s EXCEPT !.isPlaying = TRUE], s.currentChunkIndex))

\* Mutant of skipForward: playback is not restarted after the seek.
skipForward_noRestart(s, seconds) ==
    seekToPosition(stopInternal(s), Min(s.currentPosition + Sec(seconds), s.totalDuration))

skipForward(s, seconds) ==
    LET t == seekToPosition(stopInternal(s),
                            Min(s.currentPosition + Sec(seconds), s.totalDuration))
    IN  IF s.isPlaying THEN Restart(t) ELSE t

\* Mutant of skipBackward: a paused controller stays paused, so the next play()
\* resumes from the snapshot of pause().
skipBackward_staysPaused(s, seconds) ==
    LET t == seekToPosition(stopInternal(s), Max(s.currentPosition - Sec(seconds), 0))
    IN  IF s.isPlaying THEN Restart(t) ELSE [t EXCEPT !.isPaused = s.isPaused]

skipBackward(s, seconds) ==
    LET t == seekToPosition(stopInternal(s), Max(s.currentPosition - Sec(seconds), 0))
    IN  IF s.isPlaying THEN Restart(t) ELSE t

setRate(s, r) ==
    LET t == [s EXCEPT !.rate = r, !.storedRate = Some(r),
                       !.totalDuration = Sec(estimateChunksDuration(s.chunks, r))]
    IN  IF t.isPlaying
        THEN Restart([stopInternal(t) EXCEPT !.currentChunkIndex = t.currentChunkIndex,
                                             !.currentPosition = t.currentPosition])
        ELSE t

RateIndex(r) ==
    IF \E i \in DOMAIN TTS_RATES : TTS_RATES[i] = r
    THEN (CHOOSE i \in DOMAIN TTS_RATES :
            TTS_RATES[i] = r /\ \A j \in 1..(i - 1) : TTS_RATES[j] # r) - 1
    ELSE 0

\* Mutant of cycleRate: the index stops at the last rate and does not wrap.
cycleRate_noWrap(s) ==
    setRate(s, TTS_RATES[Min(RateIndex(s.rate) + 1, Len(TTS_RATES) - 1) + 1])

cycleRate(s) == setRate(s, TTS_RATES[((RateIndex(s.rate) + 1) % Len(TTS_RATES)) + 1])

\* Mutant of setVoice: the name is not looked up among the candidates.
setVoice_anyName(s, voiceName) ==
    LET t == [s EXCEPT !.voice = voiceName, !.storedVoice = voiceName]
    IN  IF t.isPlaying
        THEN Restart([stopInternal(t) EXCEPT !.currentChunkIndex = t.currentChunkIndex,
                                             !.currentPosition = t.currentPosition])
        ELSE t

setVoice(s, voiceName) ==
    IF \E i \in DOMAIN s.availableVoices : s.availableVoices[i].name = voiceName
    THEN LET t == [s EXCEPT !.voice = voiceName, !.storedVoice = voiceName]
         IN  IF t.isPlaying
             THEN Restart([stopInternal(t) EXCEPT !.currentChunkIndex = t.currentChunkIndex,
                                                  !.currentPosition = t.currentPosition])
             ELSE t
    ELSE s

\* Mutant of restorePosition: playback starts at the restored place.
restorePosition_autoPlays(s, position) == play(seekToPosition(s, position))

restorePosition(s, position) == seekToPosition(s, position)

\* Mutant of progressTick: the position is not held at the total duration.
progressTick_noClamp(s) ==
    IF s.isPlaying /\ ~s.isPaused
    THEN notifyProgress([s EXCEPT !.currentPosition = s.currentPosition + Sec(1)])
    ELSE s

\* setInterval callback of startProgressTracking, every second.
progressTick(s) ==
    IF s.isPlaying /\ ~s.isPaused
    THEN notifyProgress(
            [s EXCEPT !.currentPosition =
                          IF s.currentPosition + Sec(1) >= s.totalDuration
                          THEN s.totalDuration ELSE s.currentPosition + Sec(1)])
    ELSE s

\* ------------------------------------------------------------------ voices

\* v.lang.replace('_', '-').toLowerCase(), on the tags the engine's voices carry.
NormLang(l) ==
    CASE l \in {"en-US", "en_US", "en-us", "en_us"} -> "en-us"
      [] l \in {"fr-FR", "fr_FR", "fr-fr"} -> "fr-fr"
      [] OTHER -> l

\* CONFIG.TTS_ALLOWED_LANGS || ['en-US'], normalised.
AllowedLangs == {NormLang("en-US")}

\* Mutant of getVoiceScore: no bonus for a local voice.
getVoiceScore_noLocalBonus(v) ==
    IF v.pref > 0 THEN (PreferredCount - (v.pref - 1)) * 10 ELSE 0

getVoiceScore(v) ==
    (IF v.pref > 0 THEN (PreferredCount - (v.pref - 1)) * 10 ELSE 0)
        + (IF v.localService THEN 5 ELSE 0)

\* Array.prototype.filter with the predicate of loadVoices.
RECURSIVE FilterVoices(_)
FilterVoices(vs) ==
    IF vs = << >> THEN << >>
    ELSE LET v == Head(vs)
             keep == NormLang(v.lang) \in AllowedLangs /\ ~v.excluded
         IN  (IF keep THEN << v >> ELSE << >>) \o FilterVoices(Tail(vs))

\* Array.prototype.sort by descending score; the sort is stable.
RECURSIVE InsertVoice(_, _), SortVoices(_)
InsertVoice(v, sorted) ==
    IF sorted = << >> THEN << v >>
    ELSE IF getVoiceScore(v) > getVoiceScore(Head(sorted))
         THEN << v >> \o sorted
         ELSE << Head(sorted) >> \o InsertVoice(v, Tail(sorted))
SortVoices(vs) ==
    IF vs = << >> THEN << >>
    ELSE InsertVoice(vs[Len(vs)], SortVoices(SubSeq(vs, 1, Len(vs) - 1)))

\* Mutant of loadVoices: the persisted voice is not looked up.
loadVoices_ignoresSaved(s) ==
    LET av == SortVoices(FilterVoices(s.synthVoices))
        v2 == IF s.voice = Null /\ Len(av) > 0 THEN av[1].name ELSE s.voice
    IN  [s EXCEPT !.availableVoices = av, !.voice = v2,
                  !.voicesNotified = s.voicesNotified + 1]

loadVoices(s) ==
    LET av == SortVoices(FilterVoices(s.synthVoices))
        saved == s.storedVoice
        v1 == IF saved # Null /\ \E i \in DOMAIN av : av[i].name = saved
              THEN saved ELSE s.voice
        v2 == IF v1 = Null /\ Len(av) > 0 THEN av[1].name ELSE v1
    IN  [s EXCEPT !.availableVoices = av, !.voice = v2,
                  !.voicesNotified = s.voicesNotified + 1]

\* Mutant of initVoices: the listener is registered also when the voices are
\* there and loadVoices has run.
initVoices_alwaysListens(s) ==
    IF Len(s.synthVoices) > 0
    THEN [loadVoices(s) EXCEPT !.voiceListeners = s.voiceListeners + 1]
    ELSE [s EXCEPT !.voiceListeners = s.voiceListeners + 1]

initVoices(s) ==
    IF Len(s.synthVoices) > 0 THEN loadVoices(s)
    ELSE [s EXCEPT !.voiceListeners = s.voiceListeners + 1]

\* Storage.getTTSRate.
getTTSRate(s) == IF s.storedRate # None THEN s.storedRate[1] ELSE TTS_DEFAULT_RATE

init(s, content) ==
    LET r == getTTSRate(s)
    IN  initVoices([stop(s) EXCEPT !.chunks = content,
                                   !.currentChunkIndex = 0,
                                   !.currentPosition = 0,
                                   !.rate = r,
                                   !.totalDuration = Sec(estimateChunksDuration(content, r)),
                                   !.voice = Null,
                                   !.callbacks = TRUE])

\* ----------------------------------------------------------------- actions

Bounded(s) == Pending(s) <= MaxPending

\* The TTS object as the script defines it (its field initialisers), with no
\* utterance, event or timer of it in the browser.
Fresh ==
    /\ isPlaying = FALSE /\ isPaused = FALSE
    /\ currentPosition = 0 /\ totalDuration = 0
    /\ chunks = << >> /\ currentChunkIndex = 0
    /\ rate = TTS_DEFAULT_RATE /\ voice = Null /\ availableVoices = << >>
    /\ progressInterval = FALSE /\ saveInterval = FALSE
    /\ pauseTimeout = None
    /\ savedPosition = 0 /\ savedChunkIndex = 0
    /\ wakeLock = FALSE /\ callbacks = FALSE
    /\ synthQueue = << >> /\ staleEvents = EmptyBag /\ orphanTimers = EmptyBag
    /\ wakeRequests = 0 /\ voiceListeners = 0
    /\ opsDone = 0 /\ lastOp = "none" /\ endFired = FALSE /\ voicesNotified = 0

\* No file has been read and parsed.
NoFile == rawContent = << >> /\ parsedExt = None /\ parsed = << >> /\ estimated = None

\* The script has run in a browser whose voices are loaded already and that has
\* no navigator.wakeLock; the rate persisted by an earlier session, if any, is
\* one of RateChoices.
Init ==
    /\ Fresh
    /\ NoFile
    /\ wakeSupported = FALSE
    /\ storedRate \in {Some(r) : r \in RateChoices} \cup {None}
    /\ storedVoice = Null
    /\ synthVoices = EngineVoices

\* A step of the event loop: a timer or an engine event runs its handler.
Step(s, op) == Bounded(s) /\ Commit(s, op) /\ opsDone' = opsDone

\* A call of a public operation.
Call(s, op) == Bounded(s) /\ Commit(s, op) /\ opsDone' = opsDone + 1

\* The user has operations left in this run.
CanCall == opsDone < MaxOps
\* The reader screen, whose buttons call the controller, is shown once a book is
\* loaded (App.handleBookClick); before that the App calls only TTS.stop().
ReaderOpen == CanCall /\ callbacks

InitContent ==
    /\ CanCall
    /\ \E c \in Contents : Call(init(Cur, c), "init")
Play ==
    /\ ReaderOpen
    /\ Call(play(Cur), "play")
Pause ==
    /\ ReaderOpen
    /\ Call(pause(Cur), "pause")
Resume ==
    /\ ReaderOpen
    /\ Call(resume(Cur), "resume")
Stop ==
    /\ CanCall
    /\ Call(stop(Cur), "stop")
SkipForward ==
    /\ ReaderOpen
    /\ \E n \in SkipChoices : Call(skipForward(Cur, n), "skipForward")
SkipBackward ==
    /\ ReaderOpen
    /\ \E n \in SkipChoices : Call(skipBackward(Cur, n), "skipBackward")
SeekToPosition ==
    /\ ReaderOpen
    /\ Call(seekToPosition(Cur, 0), "seekToPosition")
SeekToPercent ==
    /\ ReaderOpen
    /\ \E p \in PercentChoices : Call(seekToPercent(Cur, p), "seekToPercent")
RestorePosition ==
    /\ ReaderOpen
    /\ \E n \in {1, MaxRestore} : Call(restorePosition(Cur, Sec(n)), "restorePosition")
SetRate ==
    /\ ReaderOpen
    /\ \E r \in RateChoices : Call(setRate(Cur, r), "setRate")
CycleRate ==
    /\ ReaderOpen
    /\ Call(cycleRate(Cur), "cycleRate")
SetVoice ==
    /\ ReaderOpen
    /\ \E n \in VoiceNames : Call(setVoice(Cur, n), "setVoice")

\* The utterance being spoken ends.
UtteranceEnd ==
    /\ synthQueue # << >>
    /\ Step(onend([Cur EXCEPT !.synthQueue = Tail(synthQueue)], Head(synthQueue).index),
            "onend")

\* The utterance being spoken fails.
UtteranceError ==
    /\ synthQueue # << >>
    /\ \E code \in OtherCodes :
          Step(onerror([Cur EXCEPT !.synthQueue = Tail(synthQueue)],
                       Head(synthQueue).index, code), "onerror")

\* The event of an utterance cancel() removed is delivered.  One that was being
\* spoken may have ended before the cancel, or the engine reports the
\* interruption as its end: its onend runs.
StaleEnd ==
    \E e \in BagToSet(staleEvents) :
        /\ e.code = "interrupted"
        /\ Step(onend([Cur EXCEPT !.staleEvents = staleEvents (-) SetToBag({e})], e.index),
                "stale_onend")

StaleError ==
    \E e \in BagToSet(staleEvents) :
        Step(onerror([Cur EXCEPT !.staleEvents = staleEvents (-) SetToBag({e})],
                     e.index, e.code), "stale_onerror")

TimerFire ==
    /\ pauseTimeout # None
    /\ Step(speakChunk([Cur EXCEPT !.pauseTimeout = None], pauseTimeout[1]), "timer")

OrphanTimerFire ==
    \E i \in BagToSet(orphanTimers) :
        Step(speakChunk([Cur EXCEPT !.orphanTimers = orphanTimers (-) SetToBag({i})], i),
             "orphan_timer")

ProgressTick == progressInterval /\ Step(progressTick(Cur), "tick")

\* The save interval: saveProgress hands (currentPosition, totalDuration) to the
\* App's callback and leaves the controller as it is.
SaveTick == saveInterval /\ Step(saveProgress(Cur), lastOp)

Next ==
    \/ InitContent \/ Play \/ Pause \/ Resume \/ Stop
    \/ SkipForward \/ SkipBackward \/ SeekToPosition \/ SeekToPercent
    \/ RestorePosition \/ SetRate \/ CycleRate \/ SetVoice
    \/ UtteranceEnd \/ UtteranceError \/ StaleEnd \/ StaleError
    \/ TimerFire \/ OrphanTimerFire \/ ProgressTick \/ SaveTick

Spec == Init /\ [][Next]_vars

\* Playback with no user operation once it has started: the user loads a book,
\* may seek, and presses play; every utterance ends or fails with an error that
\* is no cancellation, and every timer fires.
Quiet == ~isPlaying
LiveNext ==
    \/ (Quiet /\ InitContent)
    \/ (Quiet /\ SeekToPercent)
    \/ (Quiet /\ RestorePosition)
    \/ (Quiet /\ CycleRate)
    \/ Play
    \/ UtteranceEnd \/ UtteranceError \/ TimerFire \/ ProgressTick \/ SaveTick

LiveSpec ==
    /\ Init /\ [][LiveNext]_vars
    /\ WF_vars(UtteranceEnd \/ UtteranceError)
    /\ WF_vars(TimerFire)

\* ------------------------------------------------ the voices of the engine

\* A longer list of the engine: voices of equal score apart from each other, a
\* remote voice before local ones, two voices matching the second preferred name.
ManyVoices ==
    << [name |-> "Karen", lang |-> "en_us", localService |-> FALSE, pref |-> 0, excluded |-> FALSE],
       [name |-> "Fred", lang |-> "en-US", localService |-> TRUE, pref |-> 0, excluded |-> FALSE],
       [name |-> "Daniel", lang |-> "en-us", localService |-> FALSE, pref |-> 2, excluded |-> FALSE],
       [name |-> "Zoe", lang |-> "en_US", localService |-> TRUE, pref |-> 0, excluded |-> FALSE],
       [name |-> "Samantha", lang |-> "en-US", localService |-> TRUE, pref |-> 1, excluded |-> FALSE],
       [name |-> "Moira", lang |-> "en-US", localService |-> FALSE, pref |-> 2, excluded |-> FALSE] >>
\* A list with no candidate: an excluded voice and one of another language.
NoCandidates ==
    << [name |-> "Albert", lang |-> "en-US", localService |-> TRUE, pref |-> 0, excluded |-> TRUE],
       [name |-> "Thomas", lang |-> "fr-FR", localService |-> TRUE, pref |-> 0, excluded |-> FALSE] >>
\* What speechSynthesis.getVoices() can return once the engine has its voices.
LoadedVoiceLists == {EngineVoices, ManyVoices, NoCandidates}
\* The name Storage.getTTSVoice() can return at start: none, a candidate of some
\* lists, an excluded voice, a voice of no list.
StoredVoiceChoices == {Null, "Karen", "Albert", "Nobody"}

\* The engine's list of voices arrives or changes and 'voiceschanged' is
\* dispatched: every { once: true } listener registered by initVoices runs
\* loadVoices.  Once the engine has voices it does not lose all of them.
RECURSIVE runListeners(_, _)
runListeners(s, n) == IF n = 0 THEN s ELSE runListeners(loadVoices(s), n - 1)

VoicesChanged ==
    \E vs \in LoadedVoiceLists :
        /\ vs # synthVoices
        /\ Step(runListeners([Cur EXCEPT !.synthVoices = vs, !.voiceListeners = 0],
                             voiceListeners), "voiceschanged")

\* The script has run in a browser that may not have its voices yet.
VoiceInit ==
    /\ Fresh
    /\ NoFile
    /\ wakeSupported = FALSE
    /\ storedRate = None
    /\ storedVoice \in StoredVoiceChoices
    /\ synthVoices \in LoadedVoiceLists \cup {<< >>}

\* Books are loaded and voices chosen while the engine's voices arrive and change.
VoiceNext == InitContent \/ SetVoice \/ VoicesChanged \/ Play \/ Stop

VoiceSpec == VoiceInit /\ [][VoiceNext]_vars

\* -------------------------------------------------------- the wake lock

\* The promise of navigator.wakeLock.request('screen') awaited by
\* requestWakeLock is fulfilled: the rest of requestWakeLock runs and stores the
\* sentinel in wakeLock, whatever the controller has done since the request.
WakeLockGranted ==
    /\ wakeRequests > 0
    /\ Step([Cur EXCEPT !.wakeRequests = wakeRequests - 1, !.wakeLock = TRUE],
            "wakeLockGranted")

\* The promise is rejected: the catch branch logs and stores nothing.
WakeLockDenied ==
    /\ wakeRequests > 0
    /\ Step([Cur EXCEPT !.wakeRequests = wakeRequests - 1], "wakeLockDenied")

\* The browser releases the sentinel on its own (the page is hidden): the
\* listener of its release event clears wakeLock.
WakeLockReleased ==
    /\ wakeLock
    /\ Step([Cur EXCEPT !.wakeLock = FALSE], "wakeLockReleased")

\* The script has run in a browser that has navigator.wakeLock.
WakeInit ==
    /\ Fresh
    /\ NoFile
    /\ wakeSupported = TRUE
    /\ storedRate = None
    /\ storedVoice = Null
    /\ synthVoices = EngineVoices

\* Playback is started, paused, resumed and stopped and runs to its end while
\* the requests for the wake lock are answered.
WakeNext ==
    \/ InitContent \/ Play \/ Pause \/ Resume \/ Stop
    \/ UtteranceEnd \/ TimerFire
    \/ WakeLockGranted \/ WakeLockDenied \/ WakeLockReleased

WakeSpec == WakeInit /\ [][WakeNext]_vars

\* ------------------------------------------------------- Parser (chunker)

\* A text is a sequence of one-character strings.  The characters a file is
\* typed from: a letter, the two kinds of white space, and the characters the
\* chunker treats as markers or as inline markdown.
\* The grave accent is written "backtick".
Alphabet == {"a", " ", "\n", "#", "-", "*", "_", "backtick", ">", "1", "."}

\* What \s matches, among the characters of a text.
IsSpace(c) == c \in {" ", "\n", "\t", "\r"}
\* What \d matches.
IsDigit(c) == c \in {"0", "1", "2", "3", "4", "5", "6", "7", "8", "9"}

RECURSIVE trimStart(_), trimEnd(_)
trimStart(t) == IF t # << >> /\ IsSpace(Head(t)) THEN trimStart(Tail(t)) ELSE t
trimEnd(t) ==
    IF t # << >> /\ IsSpace(t[Len(t)]) THEN trimEnd(SubSeq(t, 1, Len(t) - 1)) ELSE t
\* String.prototype.trim
trim(t) == trimEnd(trimStart(t))

\* String.prototype.startsWith
startsWith(t, p) == Len(t) >= Len(p) /\ SubSeq(t, 1, Len(p)) = p
\* String.prototype.substring(n)
substring(t, n) == SubSeq(t, n + 1, Len(t))

\* The least index, from the given one on, at which p occurs in t, or 0.
RECURSIVE indexOf(_, _, _)
indexOf(t, p, from) ==
    IF from + Len(p) - 1 > Len(t) THEN 0
    ELSE IF SubSeq(t, from, from + Len(p) - 1) = p THEN from
    ELSE indexOf(t, p, from + 1)

\* String.prototype.split, at each line feed
RECURSIVE splitLines(_)
splitLines(t) ==
    LET i == indexOf(t, << "\n" >>, 1)
    IN  IF i = 0 THEN << t >>
        ELSE << SubSeq(t, 1, i - 1) >> \o splitLines(substring(t, i))

\* The number of line feeds t starts with.
RECURSIVE newlineRun(_)
newlineRun(t) ==
    IF t # << >> /\ Head(t) = "\n" THEN 1 + newlineRun(Tail(t)) ELSE 0

\* String.prototype.split, at each run of two or more line feeds
RECURSIVE splitParagraphs(_)
splitParagraphs(t) ==
    LET i == indexOf(t, << "\n", "\n" >>, 1)
    IN  IF i = 0 THEN << t >>
        ELSE << SubSeq(t, 1, i - 1) >>
                 \o splitParagraphs(substring(t, i - 1 + newlineRun(substring(t, i - 1))))

\* The replacement of D(.*?)D by its group, for the delimiter D = d: from left to right,
\* each d followed on the same line by another d is removed together with that
\* other d, the text between them kept.
RECURSIVE replaceDelimited(_, _)
replaceDelimited(t, d) ==
    IF t = << >> THEN << >>
    ELSE LET j == IF startsWith(t, d) THEN indexOf(t, d, Len(d) + 1) ELSE 0
             inner == SubSeq(t, Len(d) + 1, j - 1)
         IN  IF j # 0 /\ indexOf(inner, << "\n" >>, 1) = 0 /\ indexOf(inner, << "\r" >>, 1) = 0
             THEN inner \o replaceDelimited(substring(t, j + Len(d) - 1), d)
             ELSE << Head(t) >> \o replaceDelimited(Tail(t), d)

\* The inline code replacement of stripMarkdownFormatting: a backtick, one or
\* more characters that are not backticks, and a backtick are replaced by the
\* characters between.
RECURSIVE replaceInlineCode(_)
replaceInlineCode(t) ==
    IF t = << >> THEN << >>
    ELSE LET j == IF Head(t) = "backtick" THEN indexOf(t, << "backtick" >>, 2) ELSE 0
         IN  IF j > 2
             THEN SubSeq(t, 2, j - 1) \o replaceInlineCode(substring(t, j))
             ELSE << Head(t) >> \o replaceInlineCode(Tail(t))

\* The link replacement of stripMarkdownFormatting: [text](url) is replaced by
\* text, where text has no ] and url no ) and neither is empty.
RECURSIVE replaceLinks(_)
replaceLinks(t) ==
    IF t = << >> THEN << >>
    ELSE LET j == IF Head(t) = "[" THEN indexOf(t, << "]" >>, 2) ELSE 0
             k == IF j > 2 /\ startsWith(substring(t, j), << "(" >>)
                  THEN indexOf(t, << ")" >>, j + 2) ELSE 0
         IN  IF k > j + 2
             THEN SubSeq(t, 2, j - 1) \o replaceLinks(substring(t, k))
             ELSE << Head(t) >> \o replaceLinks(Tail(t))

\* The replacement of each run of white space by one space.
RECURSIVE collapseSpaces(_)
collapseSpaces(t) ==
    IF t = << >> THEN << >>
    ELSE IF IsSpace(Head(t)) THEN << " " >> \o collapseSpaces(trimStart(t))
    ELSE << Head(t) >> \o collapseSpaces(Tail(t))

\* Parser.stripMarkdownFormatting
stripMarkdownFormatting(text) ==
    LET t1 == replaceDelimited(text, << "*", "*", "*" >>)
        t2 == replaceDelimited(t1, << "*", "*" >>)
        t3 == replaceDelimited(t2, << "*" >>)
        t4 == replaceDelimited(t3, << "_", "_", "_" >>)
        t5 == replaceDelimited(t4, << "_", "_" >>)
        t6 == replaceDelimited(t5, << "_" >>)
    IN  trim(collapseSpaces(replaceLinks(replaceInlineCode(t6))))

\* Whether every character of t is one of cs.
AllIn(t, cs) == \A i \in 1..Len(t) : t[i] \in cs

\* /^[-*]{3,}$/
IsRule(t) == Len(t) >= 3 /\ AllIn(t, {"-", "*"})
\* /^[-*+] /
IsBullet(t) == Len(t) >= 2 /\ t[1] \in {"-", "*", "+"} /\ t[2] = " "
\* The length of the match of /^\d+\. / in t, or 0.
RECURSIVE digitRun(_)
digitRun(t) == IF t # << >> /\ IsDigit(Head(t)) THEN 1 + digitRun(Tail(t)) ELSE 0
NumberedPrefix(t) ==
    LET n == digitRun(t)
    IN  IF n > 0 /\ startsWith(substring(t, n), << ".", " " >>) THEN n + 2 ELSE 0

\* A chunk; pauseAfter is the key of CONFIG.TTS_PAUSES whose value it gets.
Chunk(text, type, pauseAfter) == [text |-> text, type |-> type, pauseAfter |-> pauseAfter]

\* Mutant of markdownLine: the stripped text is pushed without looking at it.
markdownLine_pushesEmpty(line) ==
    LET trimmedLine == trim(line)
        hdr(n) == startsWith(trimmedLine, [i \in 1..n + 1 |-> IF i <= n THEN "#" ELSE " "])
        push(text, type, pauseAfter) ==
            << Chunk(trim(stripMarkdownFormatting(text)), type, pauseAfter) >>
    IN  IF trimmedLine = << >> THEN << >>
        ELSE IF hdr(4) THEN push(substring(trimmedLine, 5), "h4", "h4")
        ELSE IF hdr(3) THEN push(substring(trimmedLine, 4), "h3", "h3")
        ELSE IF hdr(2) THEN push(substring(trimmedLine, 3), "h2", "h2")
        ELSE IF hdr(1) THEN push(substring(trimmedLine, 2), "h1", "h1")
        ELSE IF IsBullet(trimmedLine)
             THEN push(substring(trimmedLine, 2), "listItem", "listItem")
        ELSE IF NumberedPrefix(trimmedLine) > 0
             THEN push(substring(trimmedLine, NumberedPrefix(trimmedLine)),
                       "listItem", "listItem")
        ELSE IF startsWith(trimmedLine, << ">", " " >>)
             THEN push(substring(trimmedLine, 2), "blockquote", "paragraph")
        ELSE IF IsRule(trimmedLine) THEN << >>
        ELSE push(trimmedLine, "paragraph", "paragraph")

\* The body of the loop over the lines of a markdown file in
\* Parser.parseIntoChunks: the chunks pushed for one line, none or one.
markdownLine(line) ==
    LET trimmedLine == trim(line)
        hdr(n) == startsWith(trimmedLine, [i \in 1..n + 1 |-> IF i <= n THEN "#" ELSE " "])
        push(text, type, pauseAfter) ==
            LET stripped == stripMarkdownFormatting(text)
            IN  IF trim(stripped) # << >>
                THEN << Chunk(trim(stripped), type, pauseAfter) >> ELSE << >>
    IN  IF trimmedLine = << >> THEN << >>
        ELSE IF hdr(4) THEN push(substring(trimmedLine, 5), "h4", "h4")
        ELSE IF hdr(3) THEN push(substring(trimmedLine, 4), "h3", "h3")
        ELSE IF hdr(2) THEN push(substring(trimmedLine, 3), "h2", "h2")
        ELSE IF hdr(1) THEN push(substring(trimmedLine, 2), "h1", "h1")
        ELSE IF IsBullet(trimmedLine)
             THEN push(substring(trimmedLine, 2), "listItem", "listItem")
        ELSE IF NumberedPrefix(trimmedLine) > 0
             THEN push(substring(trimmedLine, NumberedPrefix(trimmedLine)),
                       "listItem", "listItem")
        ELSE IF startsWith(trimmedLine, << ">", " " >>)
             THEN push(substring(trimmedLine, 2), "blockquote", "paragraph")
        ELSE IF IsRule(trimmedLine) THEN << >>
        ELSE push(trimmedLine, "paragraph", "paragraph")

\* The inner loop over the lines of one paragraph of a plain text file: the
\* lines from the i-th on.
RECURSIVE paragraphLines(_, _)
paragraphLines(lines, i) ==
    IF i > Len(lines) THEN << >>
    ELSE (IF trim(lines[i]) # << >>
          THEN << Chunk(trim(lines[i]), "paragraph",
                        IF i = Len(lines) THEN "paragraph" ELSE "newline") >>
          ELSE << >>) \o paragraphLines(lines, i + 1)

\* The body of the loop over the paragraphs of a plain text file.
plainParagraph(para) ==
    IF trim(para) # << >> THEN paragraphLines(splitLines(trim(para)), 1) ELSE << >>

\* The loop over the lines of a markdown file, from the i-th line on.
RECURSIVE markdownLines(_, _)
markdownLines(lines, i) ==
    IF i > Len(lines) THEN << >>
    ELSE markdownLine(lines[i]) \o markdownLines(lines, i + 1)

\* The loop over the paragraphs of a plain text file, from the i-th on.
RECURSIVE plainParagraphs(_, _)
plainParagraphs(paragraphs, i) ==
    IF i > Len(paragraphs) THEN << >>
    ELSE plainParagraph(paragraphs[i]) \o plainParagraphs(paragraphs, i + 1)

\* fileName.split('.').pop().toLowerCase(), for the file names FileNames.
RECURSIVE lastPiece(_)
lastPiece(name) ==
    LET i == indexOf(name, << "." >>, 1)
    IN  IF i = 0 THEN name ELSE lastPiece(substring(name, i))
toLowerCase(t) ==
    [i \in 1..Len(t) |-> CASE t[i] = "M" -> "m" [] t[i] = "D" -> "d" [] t[i] = "T" -> "t"
                           [] t[i] = "X" -> "x" [] OTHER -> t[i]]
Ext(name) == toLowerCase(lastPiece(name))

\* Parser.parseIntoChunks
parseIntoChunks(content, name) ==
    IF Ext(name) = << "m", "d" >>
    THEN markdownLines(splitLines(content), 1)
    ELSE plainParagraphs(splitParagraphs(content), 1)

\* The names of the files read: markdown, markdown in capitals, plain text.
FileNames == { << "a", ".", "m", "d" >>, << "a", ".", "M", "D" >>, << "a", ".", "t", "x", "t" >> }

\* One more character of the file is read.
ReadChar ==
    /\ parsedExt = None
    /\ Len(rawContent) < MaxText
    /\ \E c \in Alphabet : rawContent' = Append(rawContent, c)
    /\ UNCHANGED << parsedExt, parsed, estimated >>
    /\ UNCHANGED TTSVars

\* The file read is parsed under its name.
ParseIntoChunks ==
    /\ parsedExt = None
    /\ \E name \in FileNames :
        /\ parsedExt' = Some(Ext(name))
        /\ parsed' = parseIntoChunks(rawContent, name)
    /\ UNCHANGED << rawContent, estimated >>
    /\ UNCHANGED TTSVars

ParserInit == Init /\ storedRate = None
ParserNext == ReadChar \/ ParseIntoChunks
ParserSpec == ParserInit /\ [][ParserNext]_vars

\* --------------------------------------------------- plain text files

\* The characters of a plain text file with no markdown in it.
PlainAlphabet == {"a", " ", "\n"}

\* One more character of a plain text file is read.
ReadPlainChar ==
    /\ parsedExt = None
    /\ Len(rawContent) < MaxPlainText
    /\ \E c \in PlainAlphabet : rawContent' = Append(rawContent, c)
    /\ UNCHANGED << parsedExt, parsed, estimated >>
    /\ UNCHANGED TTSVars

\* The file read is parsed as plain text.
ParsePlainText ==
    /\ parsedExt = None
    /\ parsedExt' = Some(Ext(<< "a", ".", "t", "x", "t" >>))
    /\ parsed' = parseIntoChunks(rawContent, << "a", ".", "t", "x", "t" >>)
    /\ UNCHANGED << rawContent, estimated >>
    /\ UNCHANGED TTSVars

PlainNext == ReadPlainChar \/ ParsePlainText
PlainSpec == ParserInit /\ [][PlainNext]_vars

\* ----------------------------------------------- the estimator on its own

\* CONFIG.TTS_PAUSES, in milliseconds: the longest pause after a first-level
\* heading, shorter ones down the levels, a short one after a list item and the
\* shortest between the lines of one paragraph.
TTS_PAUSES ==
    [h1 |-> 1200, h2 |-> 1000, h3 |-> 800, h4 |-> 600, paragraph |-> 800,
     listItem |-> 400, newline |-> 200]

\* chunk.text.split(/\s+/).filter(w => w).length: the runs of characters that
\* are not white space.
RECURSIVE wordCount(_)
wordCount(text) ==
    IF text = << >> THEN 0
    ELSE IF IsSpace(Head(text)) THEN wordCount(trimStart(text))
    ELSE IF Len(text) = 1 \/ IsSpace(text[2]) THEN 1 + wordCount(Tail(text))
    ELSE wordCount(Tail(text))

\* What estimateChunksDuration reads of each chunk of cs.
Measured(cs) ==
    [i \in 1..Len(cs) |->
        [words |-> wordCount(cs[i].text), pauseAfter |-> TTS_PAUSES[cs[i].pauseAfter]]]

\* Texts of the chunks handed to the estimator: no text, one word, two words,
\* five words with more than one space between some.
ChunkTexts ==
    { << >>, << "a" >>, << "a", " ", "a" >>,
      << "a", " ", " ", "a", "\n", "a", " ", "a", " ", "a" >> }
\* Their pauses.
PauseChoices == {"h1", "listItem", "newline"}
\* Rates handed to the estimator: every quarter up to the fastest of the list.
EstimateRates == 1..TTS_RATES[Len(TTS_RATES)]

\* One more chunk is in the sequence.
PushChunk ==
    /\ Len(parsed) < MaxChunks
    /\ \E text \in ChunkTexts, key \in PauseChoices :
            parsed' = Append(parsed, Chunk(text, "paragraph", key))
    /\ estimated' = None
    /\ UNCHANGED << rawContent, parsedExt >>
    /\ UNCHANGED TTSVars

\* Parser.estimateChunksDuration is called on the sequence.
EstimateChunksDuration ==
    /\ \E r \in EstimateRates :
            estimated' = Some([rate |-> r,
                               seconds |-> estimateChunksDuration(Measured(parsed), r)])
    /\ UNCHANGED << rawContent, parsedExt, parsed >>
    /\ UNCHANGED TTSVars

EstimateNext == PushChunk \/ EstimateChunksDuration
EstimateSpec == ParserInit /\ [][EstimateNext]_vars

\* ------------------------------------------------------------------ claims

ControllerState ==
    << isPlaying, isPaused, currentPosition, totalDuration, chunks, currentChunkIndex,
       rate, voice, availableVoices, savedPosition, savedChunkIndex,
       progressInterval, saveInterval, wakeLock >>

TimersPending == BagCardinality(orphanTimers) + (IF pauseTimeout = None THEN 0 ELSE 1)

\* C1: the onend or onerror handler of an utterance that a cancel removed changes
\* nothing of the controller, schedules no timer and submits no utterance,
\* whenever it fires.
C1_StaleHandlersIgnored ==
    [][ lastOp' \in {"stale_onend", "stale_onerror"}
            => /\ UNCHANGED ControllerState
               /\ UNCHANGED << synthQueue, pauseTimeout, orphanTimers >> ]_vars

\* C2: at most one utterance is in flight, at most one next-chunk timer is
\* pending, and never an utterance in flight together with a pending timer.
C2_OneUtteranceOneTimer ==
    /\ Len(synthQueue) <= 1
    /\ TimersPending <= 1
    /\ ~(Len(synthQueue) = 1 /\ TimersPending = 1)

\* C3: pause, stop, setRate, setVoice (of a candidate's name), seekToPosition,
\* seekToPercent, skipForward and skipBackward, called while an utterance is in
\* flight or a timer is pending, leave no utterance and no timer of before the
\* call: no timer is pending after it, and the queue holds at most the utterance
\* the call itself submitted.
C3_OpsCancelEverything ==
    [][ ( /\ synthQueue # << >> \/ TimersPending > 0
          /\ opsDone' = opsDone + 1
          /\ \/ lastOp' \in {"pause", "stop", "setRate", "seekToPosition",
                             "seekToPercent", "skipForward", "skipBackward"}
             \/ /\ lastOp' = "setVoice"
                /\ \E i \in DOMAIN availableVoices :
                      Call(setVoice(Cur, availableVoices[i].name), "setVoice") )
        => /\ TimersPending' = 0
           /\ IF isPlaying /\ lastOp' \in {"setRate", "setVoice", "skipForward", "skipBackward"}
              THEN Len(synthQueue') <= 1
              ELSE synthQueue' = << >> ]_vars

\* C4: isPlaying and isPaused are never both true, and both are false after
\* stop() and after the end of the content (handleEnd).
C4_PlayingPausedExclusive ==
    /\ ~(isPlaying /\ isPaused)
    /\ (lastOp = "stop" \/ endFired) => (~isPlaying /\ ~isPaused)

\* stop() has cancelled an utterance of a playing controller.
C4_Witness == lastOp = "stop" /\ staleEvents # EmptyBag /\ chunks # << >>

\* C5: 0 <= currentPosition <= totalDuration in every reachable state.
C5_PositionInRange == 0 <= currentPosition /\ currentPosition <= totalDuration

\* C6: currentChunkIndex is a valid index of a non-empty chunk sequence, and 0
\* for an empty one.
C6_ChunkIndexInRange ==
    IF Len(chunks) = 0 THEN currentChunkIndex = 0
    ELSE 0 <= currentChunkIndex /\ currentChunkIndex < Len(chunks)

\* A seek to the end of a three-chunk document has chosen its last chunk.
C6_Witness ==
    lastOp = "seekToPercent" /\ Len(chunks) = 3 /\ currentChunkIndex = 2

\* C7: once play() has started playback of a non-empty chunk sequence and no
\* user operation follows, the controller reaches Ended: handleEnd has called the
\* completion callback, isPlaying and isPaused are false and currentPosition is
\* totalDuration.
C7_PlaybackEnds ==
    (isPlaying /\ chunks # << >>)
        ~> (endFired /\ ~isPlaying /\ ~isPaused /\ currentPosition = totalDuration)

\* Playback of a three-chunk document has run from its first chunk to the end.
C7_Witness ==
    /\ endFired /\ lastOp = "timer" /\ Len(chunks) = 3
    /\ currentChunkIndex = 2 /\ currentPosition = totalDuration /\ opsDone = 2

\* C8: pause() from Playing leaves currentChunkIndex and currentPosition as they
\* are, and a resume() right after it leaves them as they are again and submits
\* the chunk at that index.
C8_PauseResumeKeepsPlace ==
    [][ /\ (isPlaying /\ lastOp' = "pause")
            => /\ currentChunkIndex' = currentChunkIndex
               /\ currentPosition' = currentPosition
        /\ (lastOp = "pause" /\ isPaused /\ lastOp' = "resume")
            => /\ currentChunkIndex' = currentChunkIndex
               /\ currentPosition' = currentPosition
               /\ Len(synthQueue') = 1
               /\ synthQueue'[1].index = currentChunkIndex ]_vars

\* resume() has restarted the second or a later chunk at a position past 0.
C8_Witness ==
    /\ lastOp = "resume" /\ isPlaying
    /\ currentChunkIndex > 0 /\ currentPosition > 0
    /\ currentPosition = savedPosition /\ currentChunkIndex = savedChunkIndex
    /\ Len(synthQueue) = 1 /\ synthQueue[1].index = currentChunkIndex

\* C9: setRate(r) while Playing at chunk i and at a position p within the total
\* restarts chunk i at rate r, recomputes totalDuration for r and leaves
\* currentPosition at p clamped to the new totalDuration.
C9_SetRateWhilePlaying ==
    [][ \A r \in RateSet :
          (isPlaying /\ currentPosition <= totalDuration /\ Call(setRate(Cur, r), "setRate"))
            => /\ totalDuration' = Sec(estimateChunksDuration(chunks, r))
               /\ currentPosition' = Min(currentPosition, totalDuration')
               /\ currentChunkIndex' = currentChunkIndex
               /\ synthQueue' # << >>
               /\ synthQueue'[Len(synthQueue')].index = currentChunkIndex
               /\ synthQueue'[Len(synthQueue')].rate = r ]_vars

\* floor((seconds / totalDuration) * chunkCount) clamped into [0, chunkCount - 1].
ProportionalIndex(seconds) ==
    IF Len(chunks) > 0 /\ totalDuration > 0
    THEN Max(0, Min((seconds * Len(chunks)) \div totalDuration, Len(chunks) - 1))
    ELSE 0

\* C10: seekToPosition(sec), also when restorePosition calls it, sets
\* currentPosition to sec clamped into [0, totalDuration] and currentChunkIndex to
\* the proportional index; seekToPercent(0) gives index 0 and seekToPercent(100)
\* gives the last index of a non-empty sequence.
C10_SeekClampsAndMaps ==
    [][ /\ \A sec \in 0..Sec(MaxRestore) :
              ( \/ Call(seekToPosition(Cur, sec), "seekToPosition")
                \/ Call(restorePosition(Cur, sec), "restorePosition") )
                => /\ currentPosition' = Max(0, Min(sec, totalDuration))
                   /\ currentChunkIndex' = ProportionalIndex(sec)
        /\ (chunks # << >> /\ Call(seekToPercent(Cur, 0), "seekToPercent"))
                => currentChunkIndex' = 0
        /\ (chunks # << >> /\ Call(seekToPercent(Cur, 100), "seekToPercent"))
                => currentChunkIndex' = Len(chunks) - 1 ]_vars

\* C11: skipForward(s) leaves currentPosition = min(p + s, totalDuration) and
\* skipBackward(s) leaves currentPosition = max(p - s, 0), p the position before
\* the call, and the result lies in [0, totalDuration].
C11_SkipClamps ==
    [][ \A n \in SkipChoices :
          /\ Call(skipForward(Cur, n), "skipForward")
                => /\ currentPosition' = Min(currentPosition + Sec(n), totalDuration)
                   /\ 0 <= currentPosition' /\ currentPosition' <= totalDuration'
          /\ Call(skipBackward(Cur, n), "skipBackward")
                => /\ currentPosition' = Max(currentPosition - Sec(n), 0)
                   /\ 0 <= currentPosition' /\ currentPosition' <= totalDuration' ]_vars

\* C12: skipForward and skipBackward keep the playing status.  Called while
\* Playing they leave the controller Playing with one utterance submitted, that
\* of the chunk at the reseeked currentChunkIndex; called while not Playing they
\* submit no utterance and leave it not Playing.
C12_SkipKeepsStatus ==
    [][ lastOp' \in {"skipForward", "skipBackward"}
          => IF isPlaying
             THEN /\ isPlaying' /\ ~isPaused'
                  /\ Len(synthQueue') = 1
                  /\ synthQueue'[1].index = currentChunkIndex'
             ELSE ~isPlaying' /\ synthQueue' = << >> ]_vars

\* A skip forward during playback has restarted it at a later chunk.
C12_Witness ==
    /\ lastOp = "skipForward" /\ isPlaying /\ currentChunkIndex > 0
    /\ Len(synthQueue) = 1 /\ synthQueue[1].index = currentChunkIndex
    /\ staleEvents # EmptyBag

\* C13: when the utterance of chunk i, being spoken while the controller is
\* Playing, fails with an error that is no cancellation, the controller stays
\* Playing, the timer of chunk i + 1 is pending, and with no user operation
\* chunk i + 1 (if there is one) is the next utterance submitted.
C13_ErrorContinues ==
    /\ [][ UtteranceError
             => /\ isPlaying' /\ ~isPaused'
                /\ pauseTimeout' = Some(Head(synthQueue).index + 1)
                /\ synthQueue' = << >> ]_vars
    /\ [][ (isPlaying /\ pauseTimeout # None /\ pauseTimeout[1] < Len(chunks))
             => /\ isPlaying'
                /\ synthQueue' # synthQueue
                      => synthQueue' = << [index |-> pauseTimeout[1], rate |-> rate,
                                           voice |-> voice] >> ]_vars
    /\ \A i \in 0..1 :
          (lastOp = "onerror" /\ currentChunkIndex = i /\ Len(chunks) > i + 1)
              ~> (synthQueue # << >> /\ Head(synthQueue).index = i + 1)

\* The utterance of the second of three chunks has failed during playback.
C13_Witness ==
    /\ lastOp = "onerror" /\ isPlaying /\ Len(chunks) = 3
    /\ currentChunkIndex = 1 /\ pauseTimeout = Some(2) /\ synthQueue = << >>

\* A step in which speakChunk is called with an index that is no index of
\* chunks: by a next-chunk timer, or by play() or resume() at such an index.
SpeakPastEnd ==
    \/ /\ pauseTimeout # None /\ pauseTimeout[1] >= Len(chunks)
       /\ TimerFire
    \/ \E i \in BagToSet(orphanTimers) :
          /\ i >= Len(chunks)
          /\ Step(speakChunk([Cur EXCEPT !.orphanTimers = orphanTimers (-) SetToBag({i})], i),
                  "orphan_timer")
    \/ /\ ~isPlaying /\ ~isPaused /\ currentChunkIndex >= Len(chunks)
       /\ Play
    \/ /\ isPaused /\ savedChunkIndex >= Len(chunks)
       /\ (Play \/ Resume)

\* C14: whenever speakChunk is called with an index >= the number of chunks, the
\* controller is Ended after it: isPlaying and isPaused are false,
\* currentPosition is totalDuration, the tick and the checkpoint interval are
\* stopped, the wake lock is released and the completion callback was called.
C14_SpeakPastEndEnds ==
    [][ SpeakPastEnd
          => /\ ~isPlaying' /\ ~isPaused'
             /\ currentPosition' = totalDuration'
             /\ ~progressInterval' /\ ~saveInterval'
             /\ ~wakeLock'
             /\ endFired' ]_vars

\* C15: with zero chunks totalDuration is 0, and play() leaves the controller
\* Ended at once (isPlaying and isPaused false, currentPosition 0, completion
\* callback called) and submits no utterance.
C15_EmptyContentEnds ==
    /\ [](chunks = << >> => totalDuration = 0)
    /\ [][ (chunks = << >> /\ Play)
             => /\ ~isPlaying' /\ ~isPaused'
                /\ currentPosition' = 0
                /\ endFired'
                /\ synthQueue' = << >> ]_vars

\* play() was called on an empty document that had been given a position.
C15_Witness ==
    /\ lastOp = "play" /\ chunks = << >> /\ callbacks /\ endFired
    /\ ~isPlaying /\ currentPosition = 0 /\ opsDone = 3

C17_DisabledOpsAreNoOps ==
    [][ ( \/ (isPlaying /\ ~isPaused /\ Play)
          \/ (~isPlaying /\ Pause)
          \/ (~isPaused /\ Resume) )
          => /\ UNCHANGED ControllerState
             /\ UNCHANGED << synthQueue, staleEvents, pauseTimeout, orphanTimers,
                             wakeRequests, storedRate, storedVoice >> ]_vars

\* play() was called between two chunks of a running playback and did nothing.
C17_Witness ==
    /\ lastOp = "play" /\ isPlaying /\ ~isPaused
    /\ synthQueue = << >> /\ pauseTimeout = Some(1) /\ orphanTimers = EmptyBag
    /\ progressInterval /\ saveInterval

\* C18: in every state in which the controller is Paused, play() gives the same
\* state and the same submission to the engine as resume() gives there.
C18_PlayWhilePausedIsResume == isPaused => play(Cur) = resume(Cur)

\* The controller is Paused at the first chunk and a seek has since moved the
\* index to the last one: play() goes back to the snapshot, as resume() does.
C18_Witness ==
    /\ isPaused /\ lastOp = "seekToPercent"
    /\ savedChunkIndex = 0 /\ currentChunkIndex = 2
    /\ play(Cur).isPlaying /\ play(Cur).currentChunkIndex = 0
    /\ play(Cur).synthQueue = << [index |-> 0, rate |-> rate, voice |-> voice] >>

\* C19: while the controller is not Playing, a step of the event loop (a timer,
\* an interval or an engine event) submits no utterance and leaves
\* currentPosition and currentChunkIndex as they are; so does every call that
\* is not init, play, resume, a seek, a skip or restorePosition.
C19_NothingMovesWhileNotPlaying ==
    [][ ( /\ ~isPlaying
          /\ \/ opsDone' = opsDone
             \/ lastOp' \in {"pause", "stop", "setRate", "cycleRate", "setVoice"} )
          => /\ UNCHANGED << currentPosition, currentChunkIndex >>
             /\ Len(synthQueue') <= Len(synthQueue) ]_vars

\* The states after 1, 2, ... n calls of cycleRate() in succession from s.
RECURSIVE cycleRateRun(_, _)
cycleRateRun(s, n) ==
    IF n = 0 THEN << >> ELSE << cycleRate(s) >> \o cycleRateRun(cycleRate(s), n - 1)

CandidateNames == {availableVoices[i].name : i \in DOMAIN availableVoices}

\* C21: setVoice(name) with a name no candidate voice has changes nothing; with
\* a candidate's name it sets and persists the voice, leaves currentChunkIndex
\* and currentPosition as they are and, if Playing, restarts the chunk at
\* currentChunkIndex with that voice; if not Playing it submits nothing.
C21_SetVoice ==
    [][ \A n \in VoiceNames :
          Call(setVoice(Cur, n), "setVoice")
            => IF n \notin CandidateNames
               THEN /\ UNCHANGED ControllerState
                    /\ UNCHANGED << storedVoice, synthQueue, staleEvents, pauseTimeout,
                                    orphanTimers >>
               ELSE /\ voice' = n /\ storedVoice' = n
                    /\ UNCHANGED << currentChunkIndex, currentPosition >>
                    /\ IF isPlaying
                       THEN /\ isPlaying' /\ ~isPaused'
                            /\ synthQueue' = << [index |-> currentChunkIndex, rate |-> rate,
                                                 voice |-> n] >>
                       ELSE /\ UNCHANGED << isPlaying, isPaused, synthQueue >> ]_vars

\* setVoice has changed the voice while the second chunk was being spoken.
C21_Witness ==
    /\ lastOp = "setVoice" /\ isPlaying /\ currentChunkIndex = 1
    /\ voice = "Karen" /\ storedVoice = "Karen"
    /\ synthQueue = << [index |-> 1, rate |-> rate, voice |-> "Karen"] >>
    /\ [index |-> 1, code |-> "interrupted"] \in BagToSet(staleEvents)

\* C22: after a voice refresh the selected voice is the persisted voice if a
\* candidate has exactly that name, otherwise the first candidate, otherwise
\* null when there is no candidate.
C22_VoiceSelection ==
    [][ voicesNotified' > 0
          => voice' = IF \E i \in DOMAIN availableVoices' :
                            availableVoices'[i].name = storedVoice'
                      THEN storedVoice'
                      ELSE IF availableVoices' # << >> THEN availableVoices'[1].name
                      ELSE Null ]_vars

\* The voices arrived after the load and the refresh restored the persisted
\* voice, which is not the first candidate.
C22_Witness ==
    /\ lastOp = "voiceschanged" /\ voicesNotified = 1
    /\ storedVoice = "Karen" /\ voice = "Karen"
    /\ Len(availableVoices) > 1 /\ availableVoices[1].name = "Samantha"

StatedScore(v) ==
    (IF v.pref > 0 THEN (PreferredCount - (v.pref - 1)) * 10 ELSE 0)
        + (IF v.localService THEN 5 ELSE 0)

\* The place of the voice named n in the engine's list vs.
PlaceIn(vs, n) == CHOOSE i \in DOMAIN vs : vs[i].name = n

\* C24: after a voice refresh the candidates are in order of non-increasing
\* score, the score being (number of preferred names - index of the first
\* preferred name that matches) * 10, if one matches, plus 5 for a local voice,
\* and candidates of equal score are in the order the engine listed them.
C24_CandidatesSortedByScore ==
    [][ voicesNotified' > 0
          => \A i, j \in DOMAIN availableVoices' :
                i < j =>
                  \/ StatedScore(availableVoices'[i]) > StatedScore(availableVoices'[j])
                  \/ /\ StatedScore(availableVoices'[i]) = StatedScore(availableVoices'[j])
                     /\ PlaceIn(synthVoices', availableVoices'[i].name)
                            < PlaceIn(synthVoices', availableVoices'[j].name) ]_vars

\* A refresh has sorted the longer list: the preferred local voice first, the
\* remote voice the engine listed first last, equal scores in the engine's order.
C24_Witness ==
    /\ voicesNotified > 0 /\ synthVoices = ManyVoices
    /\ [i \in DOMAIN availableVoices |-> availableVoices[i].name]
          = << "Samantha", "Daniel", "Moira", "Fred", "Zoe", "Karen" >>


\* Whether t has a character that is not white space.
NonBlank(t) == \E i \in 1..Len(t) : ~IsSpace(t[i])

\* The lines of the file that are neither blank nor, in a markdown file, a
\* horizontal rule.
SpokenLines ==
    LET lines == splitLines(rawContent)
    IN  { i \in 1..Len(lines) :
            /\ NonBlank(lines[i])
            /\ parsedExt = Some(<< "m", "d" >>) => ~IsRule(trim(lines[i])) }

\* C25: whatever the text and the kind of the file, every chunk of the chunker
\* has text that is not empty (nor blank), and there are no more chunks than
\* lines that are neither blank nor a horizontal rule: such lines, and lines with
\* nothing left once marker and inline markdown are stripped, give no chunk.
C25_ChunksNonEmpty ==
    parsedExt # None =>
        /\ \A i \in 1..Len(parsed) : parsed[i].text # << >> /\ NonBlank(parsed[i].text)
        /\ Len(parsed) <= Cardinality(SpokenLines)
        /\ parsedExt # Some(<< "m", "d" >>) => Len(parsed) = Cardinality(SpokenLines)

\* A markdown file of a line that is only emphasis marks and a line of text has
\* been parsed: one chunk, of the second line.
C25_Witness ==
    /\ rawContent = << "*", "*", "\n", "a" >>
    /\ parsedExt = Some(<< "m", "d" >>)
    /\ Len(parsed) = 1 /\ parsed[1].text = << "a" >>


\* C26: for a fixed chunk sequence the estimate does not grow when the rate
\* does, it is at least 1 when some chunk has text that is not empty, and it is
\* 0 for the empty sequence.
C26_EstimateMonotone ==
    /\ [](estimated # None =>
            /\ (\E i \in 1..Len(parsed) : parsed[i].text # << >>) => estimated[1].seconds >= 1
            /\ parsed = << >> => estimated[1].seconds = 0)
    /\ [][(estimated # None /\ estimated' # None /\ parsed' = parsed
                /\ estimated'[1].rate > estimated[1].rate)
            => estimated'[1].seconds <= estimated[1].seconds]_vars

\* A heading of two words and a line of five have been estimated at rate 2.0:
\* 3 seconds, where rate 0.25 gives 13.
C26_Witness ==
    /\ Len(parsed) = 2
    /\ wordCount(parsed[1].text) = 2 /\ parsed[1].pauseAfter = "h1"
    /\ wordCount(parsed[2].text) = 5 /\ parsed[2].pauseAfter = "newline"
    /\ estimated = Some([rate |-> 8, seconds |-> 3])
    /\ estimateChunksDuration(Measured(parsed), 1) = 13


\* C27: the checkpoint callback gets (currentPosition, totalDuration) on every
\* pause() from Playing and on every seek, besides the checkpoint interval
\* while Playing.
C27_CheckpointOnPauseAndSeek ==
    callbacks =>
        /\ isPlaying => pause(Cur).checkpoints = << << currentPosition, totalDuration >> >>
        /\ \A p \in PercentChoices :
                LET s == seekToPercent(Cur, p)
                IN  s.checkpoints = << << s.currentPosition, s.totalDuration >> >>
        /\ saveInterval =>
                saveProgress(Cur).checkpoints = << << currentPosition, totalDuration >> >>


\* C28: restorePosition, seekToPosition and seekToPercent never start playback:
\* they leave isPlaying, isPaused, rate, voice and totalDuration as they were and
\* submit no utterance; right after init the controller stays Stopped.
C28_SeeksNeverStartPlayback ==
    [][(SeekToPosition \/ SeekToPercent \/ RestorePosition) =>
            /\ isPlaying' = isPlaying /\ isPaused' = isPaused
            /\ rate' = rate /\ voice' = voice /\ totalDuration' = totalDuration
            /\ synthQueue' = synthQueue
            /\ lastOp = "init" => (~isPlaying' /\ ~isPaused')]_vars

\* A book of three chunks has been loaded and its persisted position restored:
\* the controller is at that place, stopped, with nothing handed to the engine.
C28_Witness ==
    /\ lastOp = "restorePosition" /\ opsDone = 2 /\ Len(chunks) = 3
    /\ currentPosition > 0
    /\ ~isPlaying /\ ~isPaused /\ synthQueue = << >>


\* C29: during playback with no user operation, each utterance ending or failing
\* once, the chunks handed to the engine are consecutive from the index playback
\* started at to the last one: one utterance at a time, each the chunk after the
\* one before it, and playback ends only after the last chunk.
C29_ChunksInOrder ==
    /\ [](Len(synthQueue) <= 1)
    /\ [][(synthQueue' # synthQueue /\ synthQueue' # << >>) =>
              /\ synthQueue = << >>
              /\ synthQueue'[1].index < Len(chunks)
              /\ synthQueue'[1].index =
                    IF isPlaying THEN currentChunkIndex + 1 ELSE currentChunkIndex]_vars
    /\ [][(endFired' /\ chunks # << >>) =>
              (synthQueue = << >> /\ currentChunkIndex = Len(chunks) - 1)]_vars

\* The next-chunk timer has handed the last of three chunks to the engine.
C29_Witness ==
    /\ lastOp = "timer" /\ isPlaying /\ Len(chunks) = 3
    /\ currentChunkIndex = 2
    /\ Len(synthQueue) = 1 /\ synthQueue[1].index = 2


\* C30: an error event of the engine with code "interrupted" or "canceled"
\* causes no action, in whatever state it arrives: the controller is as it was,
\* no next-chunk timer is scheduled and nothing is handed to the engine.
C30_CancellationErrorsIgnored ==
    /\ [](\A e \in BagToSet(staleEvents) : e.code \in CancelCodes)
    /\ [][StaleError =>
              /\ ControllerState' = ControllerState
              /\ pauseTimeout' = pauseTimeout /\ orphanTimers' = orphanTimers
              /\ synthQueue' = synthQueue
              /\ callbacks' = callbacks /\ ~endFired']_vars

\* The error event of an utterance a skip interrupted has arrived during the
\* playback the skip restarted.
C30_Witness ==
    /\ lastOp = "stale_onerror"
    /\ isPlaying /\ ~isPaused /\ synthQueue # << >> /\ pauseTimeout = None


\* C31: a one-second tick that fires while Playing sets currentPosition to
\* min(currentPosition + 1, totalDuration) and emits exactly one progress event
\* (of the new position); one that fires while not Playing changes nothing and
\* emits nothing.
C31_TickAdvancesAndNotifies ==
    /\ [][ProgressTick =>
              /\ currentPosition' =
                    IF isPlaying THEN Min(currentPosition + Sec(1), totalDuration)
                    ELSE currentPosition
              /\ ControllerState' =
                    [ControllerState EXCEPT ![3] = currentPosition']
              /\ synthQueue' = synthQueue /\ pauseTimeout' = pauseTimeout]_vars
    /\ [](LET t == progressTick(Cur)
          IN  IF isPlaying
              THEN /\ Len(t.progressEvents) = 1
                   /\ t.progressEvents[1].currentPosition = t.currentPosition
                   /\ t.progressEvents[1].totalDuration = totalDuration
                   /\ t.progressEvents[1].isPlaying
              ELSE t.progressEvents = << >>)

\* A tick has fired during the playback of three chunks at rate 1.0 and the
\* position is held at the total duration, 3 seconds, as the next tick will
\* report.
C31_Witness ==
    /\ lastOp = "tick" /\ isPlaying /\ Len(chunks) = 3 /\ rate = TTS_DEFAULT_RATE
    /\ currentPosition = totalDuration /\ totalDuration = Sec(3)
    /\ progressTick(Cur).progressEvents[1].percent = 100


\* The whole seconds nearest to ms1000 / 1000 milliseconds, at least 1: whether e
\* is that number (halves go up).
NearestSecond(e, num, den) ==
    \/ e = 1 /\ 2 * num < 3 * den
    \/ e >= 1 /\ 2 * num >= (2 * e - 1) * den /\ 2 * num < (2 * e + 1) * den

\* C32: after setRate(r) every utterance submitted carries the rate r and every
\* next-chunk timer scheduled when a chunk completes has the delay
\* pauseAfter / r, for the rate in effect at the completion, while the duration
\* estimate adds each pauseAfter whole, whatever the rate.
C32_RateInUtterancesAndPauses ==
    /\ [][(/\ synthQueue' # << >> /\ synthQueue' # synthQueue
            /\ synthQueue' # SubSeq(synthQueue, 2, Len(synthQueue))) =>
              synthQueue'[Len(synthQueue')].rate = rate']_vars
    /\ [](synthQueue # << >> /\ isPlaying =>
              onend(Cur, synthQueue[1].index).timeouts =
                  << Delay(chunks[synthQueue[1].index + 1].pauseAfter, rate) >>)
    /\ [](\A e \in BagToSet(staleEvents) :
              (isPlaying /\ e.index < Len(chunks)) =>
                  onend(Cur, e.index).timeouts =
                      << Delay(chunks[e.index + 1].pauseAfter, rate) >>)
    /\ [](chunks # << >> =>
              \E e \in 1..(totalDuration \div Sec(1)) :
                  /\ totalDuration = Sec(e)
                  /\ NearestSecond(e, 240000 * SumWords(chunks)
                                        + BaseWPM * rate * SumPauses(chunks),
                                   1000 * BaseWPM * rate))

\* setRate(2.0) has restarted the second of three chunks during playback: its
\* utterance carries the new rate, the pause after it will be 200 / 2.0 ms, and
\* the estimate is 2 seconds (0.6 s of speech and 1.4 s of pauses).
C32_Witness ==
    /\ lastOp = "setRate" /\ isPlaying /\ rate = 8 /\ Len(chunks) = 3
    /\ synthQueue = << [index |-> 1, rate |-> 8, voice |-> voice] >>
    /\ onend(Cur, 1).timeouts = << Delay(200, 8) >>
    /\ totalDuration = Sec(2)


\* The lines of ls from the i-th on that are not blank, in order.
RECURSIVE NonBlankLines(_, _)
NonBlankLines(ls, i) ==
    IF i > Len(ls) THEN << >>
    ELSE (IF NonBlank(ls[i]) THEN << i >> ELSE << >>) \o NonBlankLines(ls, i + 1)

\* C33: for a plain text file the chunks are its lines that are not blank, in
\* the order of the file; the chunk of the last such line of a paragraph (the
\* lines between blank lines) has the paragraph pause and the chunk of every
\* earlier line of the paragraph the newline pause.
C33_ParagraphPauses ==
    parsedExt = Some(<< "t", "x", "t" >>) =>
        LET lines == splitLines(rawContent)
            spoken == NonBlankLines(lines, 1)
        IN  /\ Len(parsed) = Len(spoken)
            /\ \A k \in 1..Len(parsed) :
                  /\ parsed[k].text = trim(lines[spoken[k]])
                  /\ parsed[k].pauseAfter =
                        IF spoken[k] = Len(lines) \/ ~NonBlank(lines[spoken[k] + 1])
                        THEN "paragraph" ELSE "newline"


\* The controller after the utterance in flight has ended and the timer its
\* onend has set, if any, has fired.
AfterCompletion ==
    LET done == onend([Cur EXCEPT !.synthQueue = Tail(synthQueue)], synthQueue[1].index)
    IN  IF done.pauseTimeout = None THEN done
        ELSE speakChunk([done EXCEPT !.pauseTimeout = None], done.pauseTimeout[1])

\* C34: a seek during playback takes effect on what is spoken: when
\* seekToPosition or seekToPercent has moved currentChunkIndex away from the
\* chunk in flight, the next chunk handed to the engine is the one at the new
\* currentChunkIndex, which the completion of the chunk in flight does not
\* overwrite.
C34_SeekWhilePlayingIsSpoken ==
    ( /\ isPlaying /\ lastOp \in {"seekToPosition", "seekToPercent"}
      /\ synthQueue # << >> /\ pauseTimeout = None
      /\ synthQueue[1].index # currentChunkIndex )
    => /\ AfterCompletion.synthQueue # << >>
       /\ AfterCompletion.synthQueue[Len(AfterCompletion.synthQueue)].index
              = currentChunkIndex
       /\ AfterCompletion.currentChunkIndex = currentChunkIndex


\* C35: the snapshot (savedChunkIndex, savedPosition) changes only when pause()
\* takes it from the current index and position, and resume(), or play() on a
\* paused controller, restarts from it: index and position are set back to the
\* snapshot and the one chunk submitted is the one at savedChunkIndex, whatever
\* a seek or a restore made of index and position in between.
C35_ResumeFromSnapshot ==
    /\ [][(savedChunkIndex' # savedChunkIndex \/ savedPosition' # savedPosition)
            => /\ isPlaying /\ lastOp' = "pause"
               /\ savedChunkIndex' = currentChunkIndex
               /\ savedPosition' = currentPosition]_vars
    /\ [](isPaused =>
            /\ resume(Cur).currentChunkIndex = savedChunkIndex
            /\ resume(Cur).currentPosition = savedPosition
            /\ resume(Cur).isPlaying /\ ~resume(Cur).isPaused
            /\ Len(resume(Cur).synthQueue) = 1
            /\ resume(Cur).synthQueue[1].index = savedChunkIndex
            /\ play(Cur) = resume(Cur))

\* A paused controller whose index and position a seek has moved away from the
\* snapshot, and which resume() and play() both put back at the snapshot.
C35_Witness ==
    /\ isPaused /\ lastOp \in {"seekToPosition", "seekToPercent"}
    /\ savedChunkIndex > 0 /\ currentChunkIndex # savedChunkIndex
    /\ currentPosition # savedPosition
    /\ resume(Cur).currentChunkIndex = savedChunkIndex
    /\ resume(Cur).currentPosition = savedPosition
    /\ resume(Cur).synthQueue = << [index |-> savedChunkIndex, rate |-> rate, voice |-> voice] >>


\* C36: the one-second tick interval and the checkpoint interval run exactly
\* while isPlaying is true.
C36_IntervalsIffPlaying ==
    /\ progressInterval <=> isPlaying
    /\ saveInterval <=> isPlaying


\* C37: no wake lock is held while the controller is not Playing, whenever the
\* requests made by play() and resume() are answered.
C37_NoWakeLockUnlessPlaying ==
    ~isPlaying => ~wakeLock


\* C38: the completion callback is called only by a step that speaks while the
\* controller is Playing: a step of the event loop or a call taken in a state
\* with isPlaying true, or play() or resume() itself.  Such a step leaves
\* isPlaying false, so the callback is called at most once until the next
\* play() or resume(), and never after stop() or pause() before one.
C38_OnEndOnlyWhilePlaying ==
    [][ endFired' => /\ (isPlaying \/ lastOp' \in {"play", "resume"})
                     /\ ~isPlaying' ]_vars


\* The percents of the progress events a handler has emitted.
Percents(s) == {s.progressEvents[i].percent : i \in DOMAIN s.progressEvents}

\* C39: the percent getState() reports is an integer from 0 to 100 in every
\* reachable state, and so is the percent of every progress event that
\* restorePosition of a saved position, the tick and the end of playback emit.
C39_PercentInRange ==
    /\ getProgressPercent(Cur) \in 0..100
    /\ \A n \in {1, MaxRestore} :
          Percents(restorePosition(Cur, Sec(n))) \subseteq 0..100
    /\ Percents(progressTick(Cur)) \subseteq 0..100
    /\ Percents(handleEnd(Cur)) \subseteq 0..100


\* The controller t that a skip to position target has made of the paused
\* controller s is Stopped at the place of the seek, and play() starts there.
SkippedWhilePaused(s, t, target) ==
    /\ ~t.isPaused /\ ~t.isPlaying
    /\ t.synthQueue = << >> /\ t.pauseTimeout = None
    /\ t.currentPosition = target
    /\ t.currentChunkIndex = seekToPosition(s, target).currentChunkIndex
    /\ play(t).isPlaying
    /\ play(t).currentChunkIndex = t.currentChunkIndex
    /\ play(t).currentPosition = target
    /\ play(t).synthQueue =
          << [index |-> t.currentChunkIndex, rate |-> s.rate, voice |-> s.voice] >>

\* C40: skipForward and skipBackward on a paused controller leave it Stopped
\* (isPaused and isPlaying false, nothing submitted) at the position and the
\* chunk index of the seek, and the play() after it speaks the chunk at that
\* index and not the one of the snapshot of pause().
C40_SkipWhilePausedStops ==
    isPaused =>
        \A n \in SkipChoices :
            /\ SkippedWhilePaused(Cur, skipForward(Cur, n),
                                  Min(currentPosition + Sec(n), totalDuration))
            /\ SkippedWhilePaused(Cur, skipBackward(Cur, n),
                                  Max(currentPosition - Sec(n), 0))

\* A controller paused in the second or a later chunk, which skipBackward takes
\* back to the first chunk, where the next play() starts.
C40_Witness ==
    /\ isPaused /\ lastOp = "pause"
    /\ savedChunkIndex > 0 /\ currentChunkIndex = savedChunkIndex
    /\ skipBackward(Cur, SKIP_DURATION).currentChunkIndex = 0
    /\ ~skipBackward(Cur, SKIP_DURATION).isPaused
    /\ play(skipBackward(Cur, SKIP_DURATION)).synthQueue =
          << [index |-> 0, rate |-> rate, voice |-> voice] >>

====
